---- MODULE Spec2Model ----
(***************************************************************************)
(* A model of pulseaudio-mixer-cli, pa-mixer-mk3.py and pa-mixer-mk2.py.   *)
(*                                                                         *)
(* LockSpec: the two-lock wakeup protocol between the pulsectl poller      *)
(* thread and the callers of PAMixerMenu.update_wakeup.                    *)
(* MenuSpec, RefreshSpec: the curses loop of PAMixerUI._run with           *)
(* PAMixerMenu.update, the wakeup handler and the navigation of the        *)
(* visible list.                                                           *)
(* ItemSpec: one PAMixerMenuItem, its name, volume, mute and port, and     *)
(* PAMixerMenu.apply_stream_params on it.                                  *)
(* RuleSpec: the rule groups of the configuration, their match clauses and *)
(* their effects, on one stream item.                                      *)
(* FailSpec: PAMixerMenu.update with a rule whose effect raises.           *)
(* NameSpec: the name of an item constructed from any metadata.            *)
(* BridgeSpec: PAMixerDBusBridge of pa-mixer-mk2.py, the parent process    *)
(* and its glib/dbus subprocess, with the pipes between them.              *)
(***************************************************************************)
EXTENDS Integers, Sequences, FiniteSets, TLC

(***************************************************************************)
(* Bounds of the model.                                                    *)
(***************************************************************************)
\* update_wakeup scopes the callers open in one run, all callers together
MaxScopes == 3
\* PAMixerMenuItem objects constructed in one run
MaxItems == 3
\* the last reading of time.monotonic(), in steps of six seconds
MaxClock == 2
\* passes of one update() call
MaxPasses == 3
\* wakeups counted during one pass
MaxBurst == 2
\* subprocess instances the bridge spawns in one run
MaxSpawns == 3
\* call() invocations in one run
MaxCalls == 2
\* D-Bus signals the subprocess instances relay in one run
MaxSignals == 2

(***************************************************************************)
(* Program constants.                                                      *)
(***************************************************************************)
\* "5.0" of range(int(5.0 / loop_interval)), in milliseconds
TimeoutMs == 5000
\* loop_interval=0.03, in milliseconds
LoopIntervalMs == 30
\* focus_new_items_delay = 5.0, in seconds
FocusDelay == 5

\* the off-by-one bug: range(int(5.0 / loop_interval) + 1)
Attempts_OffByOne == TimeoutMs \div LoopIntervalMs + 1
\* int(5.0 / loop_interval): the attempts of one update_wakeup
Attempts == TimeoutMs \div LoopIntervalMs

\* the threads that call update_wakeup
Callers == {"ui", "cmd"}
Poller == "poller"
Free == "free"

VARIABLES
  pulse_hold,    \* holder of PAMixerMenu._pulse_hold, or Free
  pulse_lock,    \* holder of PAMixerMenu._pulse_lock, or Free
  ppc,           \* where the poller thread is
  loop_running,  \* pulse.event_listen() is running its loop
  loop_stop,     \* the running loop was told to stop
  fpc,           \* [caller -> where it is in update_wakeup]
  n,             \* [caller -> attempts made in the current scope, 0 outside]
  ran,           \* [caller -> the body of the current scope was entered]
  result,        \* [caller -> how its last scope ended]
  bad_release,   \* some thread released a lock it did not hold
  scopes         \* scopes opened so far

lock_vars == <<pulse_hold, pulse_lock, ppc, loop_running, loop_stop,
               fpc, n, ran, result, bad_release, scopes>>

VARIABLES
  seen,           \* the ids of what the server listed in the last pass
  item_objs,      \* PAMixerMenu.item_objs: the items, in the OrderedDict's order
  items,          \* PAMixerMenu.items: the visible items (their oids)
  update_signal,  \* PAMixerMenu._update_signal
  update_lock,    \* PAMixerMenu._update_lock
  upc,            \* where the main thread is in PAMixerUI._run
  hl,             \* PAMixerUI._item_hl (an oid, or None)
  hl_ts,          \* PAMixerUI._item_hl_ts
  cur,            \* the local item_hl of _run (an oid, or None)
  focus_default,  \* conf.focus_default
  clock,          \* the last reading of time.monotonic()
  next_oid,       \* items constructed so far
  bursts,         \* per pass of the current update(): wakeups during it
  unserved        \* a wakeup came and no pass has enumerated since

menu_vars == <<seen, item_objs, items, update_signal, update_lock, upc, hl,
               hl_ts, cur, focus_default, clock, next_oid, bursts, unserved>>

VARIABLES
  conf,           \* the Conf an item is used under
  itm,            \* one PAMixerMenuItem, NoItem before it is constructed
  exc,            \* what the last operation on it raised, "none" if nothing
  op,             \* the last operation on it, with its argument
  wake,           \* how the next update_wakeup scope on it ends
  seed_gen        \* _seed_gen of uid_str: the value next() returns

item_vars == <<conf, itm, exc, op, wake, seed_gen>>

VARIABLES
  child,          \* _child: the instance the parent holds, None before any
  spawned,        \* subprocess instances started so far
  cstate,         \* the instance: "start", "run" (loop.run()) or "dead"
  c_stdout,       \* lines the instance wrote that the parent has not read
  c_stdin,        \* requests the parent wrote that the instance has not read
  child_sigs,     \* deque of the notices read and not yet handled
  child_calls,    \* dict of the responses read, by cid
  bpos,           \* where the parent is inside the bridge
  cur_cid,        \* cid of the call() in progress
  pending,        \* SIGUSR1 is pending for the parent
  ncalls,         \* call() invocations so far
  nsigs,          \* signals relayed so far
  handed,         \* what signal_func was called with, in order
  res,            \* how the last bridge operation of the parent ended
  sent,           \* the requests written: instance and cid
  ready_read,     \* instances whose 'ready' line the parent has read
  reaped,         \* instances the parent has waited for
  dbus            \* how the last D-Bus call of the subprocess ended

bridge_vars == <<child, spawned, cstate, c_stdout, c_stdin, child_sigs,
                 child_calls, bpos, cur_cid, pending, ncalls, nsigs, handed,
                 res, sent, ready_read, reaped, dbus>>

vars == <<lock_vars, menu_vars, item_vars, bridge_vars>>

LockInit ==
  /\ pulse_hold = Free
  /\ pulse_lock = Free
  /\ ppc = "setup"
  /\ loop_running = FALSE
  /\ loop_stop = FALSE
  /\ fpc = [f \in Callers |-> "idle"]
  /\ n = [f \in Callers |-> 0]
  /\ ran = [f \in Callers |-> FALSE]
  /\ result = [f \in Callers |-> "none"]
  /\ bad_release = FALSE
  /\ scopes = 0

\* Python's None, where an item (its oid) or a reading of the clock is expected
None == -1

MenuInit ==
  /\ seen = {}
  /\ item_objs = <<>>
  /\ items = <<>>
  /\ update_signal = FALSE
  /\ update_lock = FALSE
  /\ upc = "loop"
  /\ hl = None
  /\ hl_ts = None
  /\ cur = None
  /\ focus_default \in {"first", "last"}
  /\ clock = 0
  /\ next_oid = 0
  /\ bursts = <<>>
  /\ unserved = FALSE

\* conf.stream_params: one section, [stream-ghost] equals[application.name]
\* = Ghost, hidden = yes
StreamParams ==
  << [sec |-> "stream-ghost",
      checks |-> << <<"match", "application.name", [equals |-> "Ghost"]>>,
                    <<"set", "hidden", "yes">> >>] >>

\* class Conf: min_volume and max_volume in hundredths
DefaultConf ==
  [min_volume |-> 1, max_volume |-> 100, stream_params |-> <<>>,
   fatal |-> FALSE, use_media_name |-> FALSE, use_device_name |-> FALSE]

\* no item yet
NoItem == [t |-> "none"]

\* how a scope of update_wakeup around one pulse call ends: the call is
\* made, update_wakeup raises its RuntimeError, or the call itself raises
Outcomes == {"ok", "RuntimeError", "PulseError"}

\* the menu of the update passes is configured with the one section of
\* StreamParams
MenuConf == [DefaultConf EXCEPT !.stream_params = StreamParams]

\* nothing constructed yet under one of confs; uid_str has been called
\* before as many times as one of seeds says
ItemStart(confs, seeds) ==
  /\ conf \in confs
  /\ itm = NoItem
  /\ exc = "none"
  /\ op = [name |-> "none", arg |-> 0]
  /\ wake = "ok"
  /\ seed_gen \in seeds

ItemInit == ItemStart({MenuConf}, {0})

\* PAMixerDBusBridge(child_cmd), no subprocess yet
BridgeInit ==
  /\ child = None
  /\ spawned = 0
  /\ cstate = "dead"
  /\ c_stdout = <<>>
  /\ c_stdin = <<>>
  /\ child_sigs = <<>>
  /\ child_calls = <<>>
  /\ bpos = "idle"
  /\ cur_cid = "none"
  /\ pending = FALSE
  /\ ncalls = 0
  /\ nsigs = 0
  /\ handed = <<>>
  /\ res = "none"
  /\ sent = <<>>
  /\ ready_read = {}
  /\ reaped = {}
  /\ dbus = "none"

Init == LockInit /\ MenuInit /\ ItemInit /\ BridgeInit

(***************************************************************************)
(* threading.Lock: release() frees the lock whoever holds it.              *)
(***************************************************************************)
BadRelease(l, who) == l # who

(***************************************************************************)
(* The poller thread, update_wakeup_poller.poller.                         *)
(***************************************************************************)
\* event_mask_set('all'); event_callback_set(ev_cb)
PollerSetup ==
  /\ ppc = "setup"
  /\ ppc' = "acq_hold"
  /\ UNCHANGED <<pulse_hold, pulse_lock, loop_running, loop_stop,
                 fpc, n, ran, result, bad_release, scopes>>
  /\ UNCHANGED <<menu_vars, item_vars, bridge_vars>>

\* with self._pulse_hold: (enter)
PollerAcqHold ==
  /\ ppc = "acq_hold"
  /\ pulse_hold = Free
  /\ pulse_hold' = Poller
  /\ ppc' = "acq_lock"
  /\ UNCHANGED <<pulse_lock, loop_running, loop_stop,
                 fpc, n, ran, result, bad_release, scopes>>
  /\ UNCHANGED <<menu_vars, item_vars, bridge_vars>>

\* self._pulse_lock.acquire()
PollerAcqLock ==
  /\ ppc = "acq_lock"
  /\ pulse_lock = Free
  /\ pulse_lock' = Poller
  /\ ppc' = "rel_hold"
  /\ UNCHANGED <<pulse_hold, loop_running, loop_stop,
                 fpc, n, ran, result, bad_release, scopes>>
  /\ UNCHANGED <<menu_vars, item_vars, bridge_vars>>

\* with self._pulse_hold: (exit)
PollerRelHold ==
  /\ ppc = "rel_hold"
  /\ bad_release' = (bad_release \/ BadRelease(pulse_hold, Poller))
  /\ pulse_hold' = Free
  /\ ppc' = "listen"
  /\ UNCHANGED <<pulse_lock, loop_running, loop_stop,
                 fpc, n, ran, result, scopes>>
  /\ UNCHANGED <<menu_vars, item_vars, bridge_vars>>

\* self.pulse.event_listen() is called: the loop starts, no stop pending
PollerListen ==
  /\ ppc = "listen"
  /\ loop_running' = TRUE
  /\ loop_stop' = FALSE
  /\ ppc' = "listening"
  /\ UNCHANGED <<pulse_hold, pulse_lock, fpc, n, ran, result,
                 bad_release, scopes>>
  /\ UNCHANGED <<menu_vars, item_vars, bridge_vars>>

\* self.pulse.event_listen() returns: the running loop was stopped
PollerReturn ==
  /\ ppc = "listening"
  /\ loop_stop
  /\ loop_running' = FALSE
  /\ loop_stop' = FALSE
  /\ ppc' = "rel_lock"
  /\ UNCHANGED <<pulse_hold, pulse_lock, fpc, n, ran, result,
                 bad_release, scopes>>
  /\ UNCHANGED <<menu_vars, item_vars, bridge_vars>>

\* the bug: no finally, the poller goes round with _pulse_lock still held
PollerRelLock_NoRelease ==
  /\ ppc = "rel_lock"
  /\ ppc' = "acq_hold"
  /\ UNCHANGED <<pulse_hold, pulse_lock, loop_running, loop_stop,
                 fpc, n, ran, result, bad_release, scopes>>
  /\ UNCHANGED <<menu_vars, item_vars, bridge_vars>>

\* the bug: no while True, the poller thread ends after one event_listen()
PollerRelLock_Once ==
  /\ ppc = "rel_lock"
  /\ bad_release' = (bad_release \/ BadRelease(pulse_lock, Poller))
  /\ pulse_lock' = Free
  /\ ppc' = "ended"
  /\ UNCHANGED <<pulse_hold, loop_running, loop_stop,
                 fpc, n, ran, result, scopes>>
  /\ UNCHANGED <<menu_vars, item_vars, bridge_vars>>

\* finally: self._pulse_lock.release(), and round the while True
PollerRelLock ==
  /\ ppc = "rel_lock"
  /\ bad_release' = (bad_release \/ BadRelease(pulse_lock, Poller))
  /\ pulse_lock' = Free
  /\ ppc' = "acq_hold"
  /\ UNCHANGED <<pulse_hold, loop_running, loop_stop,
                 fpc, n, ran, result, scopes>>
  /\ UNCHANGED <<menu_vars, item_vars, bridge_vars>>

(***************************************************************************)
(* A caller of update_wakeup.                                              *)
(***************************************************************************)
\* update_wakeup() is called
FgCall(f) ==
  /\ fpc[f] = "idle"
  /\ scopes < MaxScopes
  /\ scopes' = scopes + 1
  /\ fpc' = [fpc EXCEPT ![f] = "enter"]
  /\ n' = [n EXCEPT ![f] = 0]
  /\ ran' = [ran EXCEPT ![f] = FALSE]
  /\ result' = [result EXCEPT ![f] = "none"]
  /\ UNCHANGED <<pulse_hold, pulse_lock, ppc, loop_running, loop_stop,
                 bad_release>>
  /\ UNCHANGED <<menu_vars, item_vars, bridge_vars>>

\* with self._pulse_hold: (enter)
FgAcqHold(f) ==
  /\ fpc[f] = "enter"
  /\ pulse_hold = Free
  /\ pulse_hold' = f
  /\ fpc' = [fpc EXCEPT ![f] = "stop"]
  /\ UNCHANGED <<pulse_lock, ppc, loop_running, loop_stop, n, ran, result,
                 bad_release, scopes>>
  /\ UNCHANGED <<menu_vars, item_vars, bridge_vars>>

\* self.pulse.event_listen_stop(): stops the loop if it is running
FgStop(f) ==
  /\ fpc[f] = "stop"
  /\ loop_stop' = (loop_stop \/ loop_running)
  /\ n' = [n EXCEPT ![f] = @ + 1]
  /\ fpc' = [fpc EXCEPT ![f] = "acquire"]
  /\ UNCHANGED <<pulse_hold, pulse_lock, ppc, loop_running, ran, result,
                 bad_release, scopes>>
  /\ UNCHANGED <<menu_vars, item_vars, bridge_vars>>

\* the bug: the result of the timed acquire is not looked at
FgAcquire_Unchecked(f) ==
  /\ fpc[f] = "acquire"
  /\ pulse_lock' = f
  /\ ran' = [ran EXCEPT ![f] = TRUE]
  /\ fpc' = [fpc EXCEPT ![f] = "body"]
  /\ UNCHANGED <<pulse_hold, ppc, loop_running, loop_stop, n, result,
                 bad_release, scopes>>
  /\ UNCHANGED <<menu_vars, item_vars, bridge_vars>>

\* self._pulse_lock.acquire(timeout=loop_interval) returns True: break
FgAcquire(f) ==
  /\ fpc[f] = "acquire"
  /\ pulse_lock = Free
  /\ pulse_lock' = f
  /\ ran' = [ran EXCEPT ![f] = TRUE]
  /\ fpc' = [fpc EXCEPT ![f] = "body"]
  /\ UNCHANGED <<pulse_hold, ppc, loop_running, loop_stop, n, result,
                 bad_release, scopes>>
  /\ UNCHANGED <<menu_vars, item_vars, bridge_vars>>

\* the acquire times out; the next attempt, or the for's else: raise
FgTimeout(f) ==
  /\ fpc[f] = "acquire"
  /\ pulse_lock # Free
  /\ fpc' = [fpc EXCEPT ![f] = IF n[f] < Attempts THEN "stop" ELSE "stuck"]
  /\ UNCHANGED <<pulse_hold, pulse_lock, ppc, loop_running, loop_stop,
                 n, ran, result, bad_release, scopes>>
  /\ UNCHANGED <<menu_vars, item_vars, bridge_vars>>

\* the bug: the finally wraps the whole loop, the stuck path releases too
FgStuck_Releases(f) ==
  /\ fpc[f] = "stuck"
  /\ bad_release' = (bad_release \/ BadRelease(pulse_lock, f)
                                 \/ BadRelease(pulse_hold, f))
  /\ pulse_lock' = Free
  /\ pulse_hold' = Free
  /\ result' = [result EXCEPT ![f] = "stuck"]
  /\ n' = [n EXCEPT ![f] = 0]
  /\ fpc' = [fpc EXCEPT ![f] = "idle"]
  /\ UNCHANGED <<ppc, loop_running, loop_stop, ran, scopes>>
  /\ UNCHANGED <<menu_vars, item_vars, bridge_vars>>

\* raise RuntimeError(...) leaves the with self._pulse_hold
FgStuck(f) ==
  /\ fpc[f] = "stuck"
  /\ bad_release' = (bad_release \/ BadRelease(pulse_hold, f))
  /\ pulse_hold' = Free
  /\ result' = [result EXCEPT ![f] = "stuck"]
  /\ n' = [n EXCEPT ![f] = 0]
  /\ fpc' = [fpc EXCEPT ![f] = "idle"]
  /\ UNCHANGED <<pulse_lock, ppc, loop_running, loop_stop, ran, scopes>>
  /\ UNCHANGED <<menu_vars, item_vars, bridge_vars>>

\* yield self.pulse: the body returns or raises; finally: _pulse_lock.release()
FgBody(f) ==
  /\ fpc[f] = "body"
  /\ \E how \in {"ok", "raised"} : result' = [result EXCEPT ![f] = how]
  /\ bad_release' = (bad_release \/ BadRelease(pulse_lock, f))
  /\ pulse_lock' = Free
  /\ fpc' = [fpc EXCEPT ![f] = "rel_hold"]
  /\ UNCHANGED <<pulse_hold, ppc, loop_running, loop_stop, n, ran, scopes>>
  /\ UNCHANGED <<menu_vars, item_vars, bridge_vars>>

\* with self._pulse_hold: (exit)
FgRelHold(f) ==
  /\ fpc[f] = "rel_hold"
  /\ bad_release' = (bad_release \/ BadRelease(pulse_hold, f))
  /\ pulse_hold' = Free
  /\ n' = [n EXCEPT ![f] = 0]
  /\ fpc' = [fpc EXCEPT ![f] = "idle"]
  /\ UNCHANGED <<pulse_lock, ppc, loop_running, loop_stop, ran, result,
                 scopes>>
  /\ UNCHANGED <<menu_vars, item_vars, bridge_vars>>

PollerStep ==
  \/ PollerSetup
  \/ PollerAcqHold
  \/ PollerAcqLock
  \/ PollerRelHold
  \/ PollerListen
  \/ PollerReturn
  \/ PollerRelLock

FgStep(f) ==
  \/ FgAcqHold(f)
  \/ FgStop(f)
  \/ FgAcquire(f)
  \/ FgTimeout(f)
  \/ FgStuck(f)
  \/ FgBody(f)
  \/ FgRelHold(f)

LockNext ==
  \/ PollerStep
  \/ \E f \in Callers : FgCall(f)
  \/ \E f \in Callers : FgStep(f)

LockSpec == Init /\ [][LockNext]_vars

\* both threads are scheduled fairly; when a scope is opened is up to the caller
FairLockSpec ==
  /\ LockSpec
  /\ WF_lock_vars(PollerStep)
  /\ \A f \in Callers : WF_lock_vars(FgStep(f))

(***************************************************************************)
(* The server's objects and the configuration.                             *)
(***************************************************************************)
\* obj.proplist of the objects the server lists
PropLists == { [k \in {"application.name"} |-> "Music"],
               [k \in {"application.name"} |-> "Ghost"] }

\* the lists pulsectl may return of the objects with indexes idx: each a
\* PulseSinkInfo or PulseSinkInputInfo, no index twice, in index order
RECURSIVE ObjLists(_)
ObjLists(idx) ==
  IF idx = {} THEN { <<>> }
  ELSE LET i == CHOOSE x \in idx : \A y \in idx : x <= y
           rest == ObjLists(idx \ {i})
       IN rest \cup { <<[index |-> i, proplist |-> pl]>> \o r :
                        pl \in PropLists, r \in rest }

\* what pulse.sink_list() and pulse.sink_input_list() return in one pass, of
\* a server with one sink and two sink inputs at most
Snapshots == [sink : ObjLists({0}), stream : ObjLists({0, 1})]

\* the same of a server with one sink at most
SinkSnapshots == [sink : ObjLists({0}), stream : { <<>> }]

\* Conf.parse_bool
ParseBool(val) ==
  CASE val \in {"1", "yes", "true", "on"} -> TRUE
    [] val \in {"0", "no", "false", "off"} -> FALSE
    [] OTHER -> "ValueError"

\* proplist.get(k, '')
PropGet(proplist, k) == IF k \in DOMAIN proplist THEN proplist[k] ELSE ""

\* v.search(s) for the patterns of the model: '.*' is found in every str,
\* '^$' in the empty one, 'mus' in the strs that contain it
SearchRe(pat, s) ==
  CASE pat = ".*" -> TRUE
    [] pat = "^$" -> s = ""
    [] pat = "mus" -> s \in {"music"}

\* v.search(s): v is re.compile('^' + re.escape(text) + '$') of an equals
\* clause, re.compile(pattern) of a match clause
Search(v, s) ==
  IF "equals" \in DOMAIN v THEN s = v.equals ELSE SearchRe(v.re, s)

(***************************************************************************)
(* PAMixerMenuItem and PAMixerMenu.apply_stream_params.                    *)
(***************************************************************************)
\* '{}-{}'.format(obj_t, obj.index)
ObjId(obj_t, obj) == <<obj_t, obj.index>>

\* PAMixerMenuItem.__init__
NewItem(obj_t, obj_id, obj, ts, oid) ==
  [t |-> obj_t, uid |-> obj_id, obj |-> obj, hidden |-> FALSE,
   created_ts |-> ts, oid |-> oid]

\* the bug: match is never set to False
SectionMatches_Always(checks, item) == TRUE

\* the match of one section: every match clause finds its pattern
SectionMatches(checks, item) ==
  \A i \in DOMAIN checks :
    checks[i][1] = "match"
      => Search(checks[i][3], PropGet(item.obj.proplist, checks[i][2]))

\* the bug: the first value of a key is kept
SectionParams_First(checks) ==
  LET sets == SelectSeq(checks, LAMBDA c : c[1] = "set")
      first(k) == CHOOSE i \in DOMAIN sets :
                   /\ sets[i][2] = k
                   /\ \A j \in DOMAIN sets : sets[j][2] = k => i <= j
      firsts == SelectSeq([i \in DOMAIN sets |-> i],
                          LAMBDA i : first(sets[i][2]) = i)
  IN [i \in DOMAIN firsts |-> <<sets[firsts[i]][2], sets[firsts[i]][3]>>]

\* params of one section: the set clauses, the last value of a key kept
SectionParams(checks) ==
  LET sets == SelectSeq(checks, LAMBDA c : c[1] = "set")
      last(k) == CHOOSE i \in DOMAIN sets :
                   /\ sets[i][2] = k
                   /\ \A j \in DOMAIN sets : sets[j][2] = k => j <= i
      first(k) == CHOOSE i \in DOMAIN sets :
                   /\ sets[i][2] = k
                   /\ \A j \in DOMAIN sets : sets[j][2] = k => i <= j
      firsts == SelectSeq([i \in DOMAIN sets |-> i],
                          LAMBDA i : first(sets[i][2]) = i)
  IN [i \in DOMAIN firsts |->
        <<sets[firsts[i]][2], sets[last(sets[firsts[i]][2])][3]>>]

Min(a, b) == IF a <= b THEN a ELSE b
Max(a, b) == IF a >= b THEN a ELSE b

\* an exception leaves the operation: the item as it is then, marked
Raise(item, e) ==
  [k \in DOMAIN item \cup {"exc"} |-> IF k = "exc" THEN e ELSE item[k]]

Raised(item) == "exc" \in DOMAIN item

\* float(v) of the values a configuration file gives, in hundredths
FloatTable ==
  ("0.3" :> 30) @@ ("0.5" :> 50) @@ ("0.8" :> 80) @@ ("1.5" :> 150)
    @@ ("-0.5" :> -50)

\* the volume property: "Volume as one float in 0-1 range", in hundredths;
\* obj.volume.value_flat is kept in hundredths of hundredths
volume(item) ==
  Min(100, Max(0, item.obj.volume - conf.min_volume * 100)
             \div conf.max_volume)

\* the bug: "+ self.conf.min_volume" is left out
val_pulse_NoFloor(val) == Min(100, Max(0, val)) * conf.max_volume

\* val_pulse of the volume setter
val_pulse(val) ==
  Min(100, Max(0, val)) * conf.max_volume + conf.min_volume * 100

\* the volume setter: pulse.volume_set_all_chans(self.obj, val_pulse) inside
\* update_wakeup; pulsectl stores val_pulse in obj.volume, then calls the
\* server
volume_set(item, val) ==
  CASE wake = "ok" -> [item EXCEPT !.obj.volume = val_pulse(val)]
    [] wake = "RuntimeError" -> Raise(item, "RuntimeError")
    [] wake = "PulseError" ->
         Raise([item EXCEPT !.obj.volume = val_pulse(val)], "PulseError")

\* the muted property
muted(item) == item.obj.mute # 0

\* the muted setter: self.obj.mute = int(val) comes before update_wakeup
muted_set(item, val) ==
  LET set == [item EXCEPT !.obj.mute = IF val THEN 1 ELSE 0]
  IN IF wake = "ok" THEN set ELSE Raise(set, wake)

\* the port setter: PAMixerInvalidAction is a name this file never defines,
\* so the raise statement raises NameError; for a sink, "XXX: implement"
port_set(item, name) ==
  IF item.t # "sink" THEN Raise(item, "NameError") ELSE item

\* one k, v of params; an exception ends the whole of apply_stream_params
ApplyParam(item, k, v) ==
  IF Raised(item) THEN item
  ELSE CASE k = "volume-max" ->
              IF v \notin DOMAIN FloatTable THEN Raise(item, "ValueError")
              ELSE IF volume(item) > FloatTable[v]
                     THEN volume_set(item, FloatTable[v]) ELSE item
         [] k = "volume-min" ->
              IF v \notin DOMAIN FloatTable THEN Raise(item, "ValueError")
              ELSE IF volume(item) < FloatTable[v]
                     THEN volume_set(item, FloatTable[v]) ELSE item
         [] k = "volume-set" ->
              IF v \notin DOMAIN FloatTable THEN Raise(item, "ValueError")
              ELSE volume_set(item, FloatTable[v])
         [] k = "hidden" ->
              IF v \in {"1", "yes", "true", "on", "0", "no", "false", "off"}
                THEN [item EXCEPT !.hidden = ParseBool(v)]
                ELSE Raise(item, "ValueError")
         [] k = "port" -> port_set(item, v)
         [] OTHER -> item

RECURSIVE ApplyParams(_, _)
ApplyParams(item, params) ==
  IF params = <<>> THEN item
  ELSE ApplyParams(ApplyParam(item, Head(params)[1], Head(params)[2]),
                   Tail(params))

RECURSIVE ApplySections(_, _)
ApplySections(item, secs) ==
  IF secs = <<>> THEN item
  ELSE ApplySections(
         IF SectionMatches(Head(secs).checks, item)
           THEN ApplyParams(item, SectionParams(Head(secs).checks))
           ELSE item,
         Tail(secs))

\* PAMixerMenu.apply_stream_params
apply_stream_params(item) == ApplySections(item, conf.stream_params)

(***************************************************************************)
(* One pass of PAMixerMenu.update.                                         *)
(***************************************************************************)
Range(q) == { q[i] : i \in DOMAIN q }
ItemKeys(objs) == { objs[i].uid : i \in DOMAIN objs }

\* the objects of both lists, sinks first, each with its kind
Listed(snap) ==
  [i \in 1 .. Len(snap.sink) |-> <<"sink", snap.sink[i]>>]
    \o [i \in 1 .. Len(snap.stream) |-> <<"stream", snap.stream[i]>>]

SnapIds(snap) == { ObjId(e[1], e[2]) : e \in Range(Listed(snap)) }

\* the bug: an item is constructed for every listed object, known or not
RECURSIVE Scan_Rebuilds(_, _, _, _)
Scan_Rebuilds(listed, st, tss, oid0) ==
  IF listed = <<>> THEN st
  ELSE LET obj_t == Head(listed)[1]
           obj == Head(listed)[2]
           obj_id == ObjId(obj_t, obj)
           made == Cardinality(st.obj_new)
           again == NewItem(obj_t, obj_id, obj, 6 * MaxClock,
                            MaxItems + Len(listed))
       IN Scan_Rebuilds(Tail(listed),
            IF obj_id \notin ItemKeys(st.item_objs)
              THEN [st EXCEPT
                      !.obj_new = @ \cup {obj_id},
                      !.item_objs =
                         Append(@, NewItem(obj_t, obj_id, obj,
                                           tss[made + 1], oid0 + made))]
              ELSE [st EXCEPT
                      !.obj_gone = @ \ {obj_id},
                      !.item_objs =
                         [i \in DOMAIN @ |->
                            IF @[i].uid = obj_id THEN again ELSE @[i]]],
            tss, oid0)

\* the for loops inside with self.update_wakeup(): st holds item_objs,
\* obj_new and obj_gone; the k-th item constructed reads the clock as tss[k]
RECURSIVE Scan(_, _, _, _)
Scan(listed, st, tss, oid0) ==
  IF listed = <<>> THEN st
  ELSE LET obj_t == Head(listed)[1]
           obj == Head(listed)[2]
           obj_id == ObjId(obj_t, obj)
           made == Cardinality(st.obj_new)
       IN Scan(Tail(listed),
            IF obj_id \notin ItemKeys(st.item_objs)
              THEN [st EXCEPT
                      !.obj_new = @ \cup {obj_id},
                      !.item_objs =
                         Append(@, NewItem(obj_t, obj_id, obj,
                                           tss[made + 1], oid0 + made))]
              ELSE [st EXCEPT !.obj_gone = @ \ {obj_id}],
            tss, oid0)

\* for obj_id in obj_gone: del self.item_objs[obj_id]
DelGone(objs, obj_gone) == SelectSeq(objs, LAMBDA it : it.uid \notin obj_gone)

\* for obj_id in obj_new: self.apply_stream_params(self.item_objs[obj_id])
ApplyNew(objs, obj_new) ==
  [i \in DOMAIN objs |->
     IF objs[i].uid \in obj_new THEN apply_stream_params(objs[i]) ELSE objs[i]]

\* the bug: the dict is left in insertion order
SortSinks_Unsorted(objs) == objs

\* "Sort sinks to be always on top"
SortSinks(objs) ==
  LET sinks == SelectSeq(objs, LAMBDA it : it.t = "sink")
      streams == SelectSeq(objs, LAMBDA it : it.t # "sink")
      ordered == \A i, j \in DOMAIN objs :
                   i < j /\ objs[j].t = "sink" => objs[i].t = "sink"
  IN IF ordered THEN objs ELSE sinks \o streams

\* the bug: hidden items are listed too
Visible_All(objs) == [i \in DOMAIN objs |-> objs[i].oid]

\* list(item for item in self.item_objs.values() if not item.hidden)
Visible(objs) ==
  LET shown == SelectSeq(objs, LAMBDA it : ~it.hidden)
  IN [i \in DOMAIN shown |-> shown[i].oid]

\* what time.monotonic() may return now, in seconds: the clock is read to
\* six seconds, which tells apart the two sides of focus_new_items_delay
Readings == { 6 * t : t \in 1 .. MaxClock } \ (0 .. clock - 1)

\* the readings of time.monotonic() by k constructions: none goes back
ClockReadings(k) ==
  { tss \in [1 .. k -> Readings] :
      \A i, j \in 1 .. k : i <= j => tss[i] <= tss[j] }

\* item_objs after the body of one pass against snap
PassObjs(snap, tss) ==
  LET st == Scan(Listed(snap),
                 [item_objs |-> item_objs, obj_new |-> {},
                  obj_gone |-> ItemKeys(item_objs)],
                 tss, next_oid)
  IN SortSinks(ApplyNew(DelGone(st.item_objs, st.obj_gone), st.obj_new))

(***************************************************************************)
(* Navigation: PAMixerMenu.item_default, item_newer, item_after,           *)
(* item_before. Items are named by their oid; None is Python's None.       *)
(***************************************************************************)
ItemOf(oid) == CHOOSE it \in Range(item_objs) : it.oid = oid
\* PAMixerMenu.item_default: None of an empty list, items[0] or items[-1]
item_default ==
  IF items = <<>> THEN None
  ELSE IF focus_default = "first" THEN items[1] ELSE items[Len(items)]

\* sorted(..., key=created_ts, reverse=True)[0], if newer than ts
item_newer(ts) ==
  IF items = <<>> THEN None
  ELSE LET newest == CHOOSE i \in DOMAIN items :
                       /\ \A j \in DOMAIN items :
                            ItemOf(items[j]).created_ts
                              <= ItemOf(items[i]).created_ts
                       /\ \A j \in DOMAIN items :
                            ItemOf(items[j]).created_ts
                              = ItemOf(items[i]).created_ts => i <= j
       IN IF ItemOf(items[newest]).created_ts > ts
            THEN items[newest] ELSE None

\* the position of the item with uid in self.items, 0 when there is none
PosOf(uid) ==
  IF \E i \in DOMAIN items : ItemOf(items[i]).uid = uid
    THEN CHOOSE i \in DOMAIN items :
           /\ ItemOf(items[i]).uid = uid
           /\ \A j \in DOMAIN items : ItemOf(items[j]).uid = uid => i <= j
    ELSE 0

\* the bug: the list wraps around to its first item
item_after_Wraps(item) ==
  IF item # None /\ PosOf(ItemOf(item).uid) # 0
    THEN IF PosOf(ItemOf(item).uid) < Len(items)
           THEN items[PosOf(ItemOf(item).uid) + 1] ELSE items[1]
    ELSE item_default

\* the item after the first one with item's uid; at the end, the default
item_after(item) ==
  IF /\ item # None
     /\ PosOf(ItemOf(item).uid) # 0
     /\ PosOf(ItemOf(item).uid) < Len(items)
    THEN items[PosOf(ItemOf(item).uid) + 1]
    ELSE item_default

\* the item before the first one with item's uid; at the start, the default
item_before(item) ==
  IF item # None /\ PosOf(ItemOf(item).uid) > 1
    THEN items[PosOf(ItemOf(item).uid) - 1]
    ELSE item_default

(***************************************************************************)
(* The main thread: PAMixerUI._run, PAMixerMenu.update and the handler of  *)
(* the wakeup signal, which runs in the main thread between any two steps. *)
(***************************************************************************)
\* conf.focus_new_items
FocusNewItems == TRUE

\* item_list: update() is called; self._update_lock = self._update_signal = True
UpdateBegin ==
  /\ upc = "loop"
  /\ update_lock' = TRUE
  /\ update_signal' = TRUE
  /\ bursts' = <<>>
  /\ upc' = "u_test"
  /\ UNCHANGED <<seen, item_objs, items, hl, hl_ts, cur, focus_default, clock,
                 next_oid, unserved>>
  /\ UNCHANGED <<lock_vars, item_vars, bridge_vars>>

\* while self._update_signal: ... else self._update_lock = False, return
UpdateTest ==
  /\ upc = "u_test"
  /\ IF update_signal
       THEN upc' = "u_clear" /\ UNCHANGED update_lock
       ELSE upc' = "draw" /\ update_lock' = FALSE
  /\ UNCHANGED <<seen, item_objs, items, update_signal, hl, hl_ts, cur,
                 focus_default, clock, next_oid, bursts, unserved>>
  /\ UNCHANGED <<lock_vars, item_vars, bridge_vars>>

\* self._update_signal = False: a pass begins
UpdateClear ==
  /\ upc = "u_clear"
  /\ update_signal' = FALSE
  /\ bursts' = Append(bursts, 0)
  /\ upc' = "u_pass"
  /\ UNCHANGED <<seen, item_objs, items, update_lock, hl, hl_ts, cur,
                 focus_default, clock, next_oid, unserved>>
  /\ UNCHANGED <<lock_vars, item_vars, bridge_vars>>

\* the body of one pass that nothing raises in, against what the server
\* lists: the scope of update_wakeup (entered and left, the locks as
\* before), the deletions, apply_stream_params, the sort and self.items
UpdatePass(snap) ==
  /\ upc = "u_pass"
  /\ LET k == Cardinality(SnapIds(snap) \ ItemKeys(item_objs))
     IN /\ next_oid + k <= MaxItems
        /\ \E tss \in ClockReadings(k) :
             /\ item_objs' = PassObjs(snap, tss)
             /\ \A item \in Range(item_objs') : ~Raised(item)
             /\ clock' = IF k = 0 THEN clock ELSE tss[k]
        /\ next_oid' = next_oid + k
  /\ seen' = SnapIds(snap)
  /\ items' = Visible(item_objs')
  /\ unserved' = FALSE
  /\ upc' = "u_test"
  /\ UNCHANGED <<update_signal, update_lock, hl, hl_ts, cur, focus_default,
                 bursts>>
  /\ UNCHANGED <<lock_vars, item_vars, bridge_vars>>

\* update_wakeup raises its RuntimeError: nothing catches it, the program ends
UpdateStuck ==
  /\ upc = "u_pass"
  /\ upc' = "crashed"
  /\ UNCHANGED <<seen, item_objs, items, update_signal, update_lock, hl, hl_ts,
                 cur, focus_default, clock, next_oid, bursts, unserved>>
  /\ UNCHANGED <<lock_vars, item_vars, bridge_vars>>

\* the item_hl property
item_hl_get ==
  IF hl # None /\ FocusNewItems /\ item_newer(hl_ts + FocusDelay) # None
    THEN item_newer(hl_ts + FocusDelay)
    ELSE hl

\* items, item_hl = self.menu.item_list, self.item_hl; the two ifs;
\* c_win_draw
Draw ==
  /\ upc = "draw"
  /\ LET got == item_hl_get
         local == IF got = None THEN item_default ELSE got
     IN /\ hl' = local
        /\ IF got = None
             THEN \E t \in Readings : hl_ts' = t /\ clock' = t
             ELSE UNCHANGED <<hl_ts, clock>>
        /\ cur' = IF local \in Range(items) THEN local ELSE item_default
  /\ upc' = "getch"
  /\ UNCHANGED <<seen, item_objs, items, update_signal, update_lock, focus_default,
                 next_oid, bursts, unserved>>
  /\ UNCHANGED <<lock_vars, item_vars, bridge_vars>>

\* the item_hl setter
item_hl_set(item) ==
  /\ hl' = item
  /\ \E t \in Readings : hl_ts' = t /\ clock' = t

\* win.getch() returns up, k or p: self.item_hl = item_hl.get_prev()
KeyUp ==
  /\ upc = "getch"
  /\ IF cur # None THEN item_hl_set(item_before(cur))
                   ELSE UNCHANGED <<hl, hl_ts, clock>>
  /\ upc' = "loop"
  /\ UNCHANGED <<seen, item_objs, items, update_signal, update_lock, cur,
                 focus_default, next_oid, bursts, unserved>>
  /\ UNCHANGED <<lock_vars, item_vars, bridge_vars>>

\* win.getch() returns down, j or n: self.item_hl = item_hl.get_next()
KeyDown ==
  /\ upc = "getch"
  /\ IF cur # None THEN item_hl_set(item_after(cur))
                   ELSE UNCHANGED <<hl, hl_ts, clock>>
  /\ upc' = "loop"
  /\ UNCHANGED <<seen, item_objs, items, update_signal, update_lock, cur,
                 focus_default, next_oid, bursts, unserved>>
  /\ UNCHANGED <<lock_vars, item_vars, bridge_vars>>

\* win.getch() returns a key that changes nothing here
KeyOther ==
  /\ upc = "getch"
  /\ upc' = "loop"
  /\ UNCHANGED <<seen, item_objs, items, update_signal, update_lock, hl, hl_ts,
                 cur, focus_default, clock, next_oid, bursts, unserved>>
  /\ UNCHANGED <<lock_vars, item_vars, bridge_vars>>

\* win.getch() returns q, or KeyboardInterrupt: break
KeyQuit ==
  /\ upc = "getch"
  /\ upc' = "quit"
  /\ UNCHANGED <<seen, item_objs, items, update_signal, update_lock, hl, hl_ts,
                 cur, focus_default, clock, next_oid, bursts, unserved>>
  /\ UNCHANGED <<lock_vars, item_vars, bridge_vars>>

\* the bug: a wakeup is dropped while update() runs
update_wakeup_handler_WhenIdle == update_signal' = (update_signal \/ ~update_lock)

\* PAMixerMenu.update_wakeup_handler
update_wakeup_handler == update_signal' = TRUE

\* a pass has cleared the flag and the while has not tested it again
InPass == upc \in {"u_pass", "u_test"} /\ bursts # <<>>

\* ev_cb: SIGUSR1 is handled in the main thread, wherever it is; a
\* win.getch() that is waiting returns -1 and the loop goes round
Wakeup ==
  /\ upc \notin {"quit", "crashed"}
  /\ InPass => bursts[Len(bursts)] < MaxBurst /\ Len(bursts) < MaxPasses
  /\ update_wakeup_handler
  /\ unserved' = TRUE
  /\ bursts' = IF InPass THEN [bursts EXCEPT ![Len(bursts)] = @ + 1]
               ELSE bursts
  /\ upc' = IF upc = "getch" THEN "loop" ELSE upc
  /\ UNCHANGED <<seen, item_objs, items, update_lock, hl, hl_ts, cur,
                 focus_default, clock, next_oid>>
  /\ UNCHANGED <<lock_vars, item_vars, bridge_vars>>

\* the steps of PAMixerMenu.update, the server's lists taken from snaps
UpdateStep(snaps) ==
  \/ UpdateBegin
  \/ UpdateTest
  \/ UpdateClear
  \/ \E snap \in snaps : UpdatePass(snap)
  \/ UpdateStuck

\* the loop of _run with its keys and no wakeup, against a server that has
\* one sink and two sink inputs at most
MenuNext ==
  \/ UpdateStep(Snapshots)
  \/ Draw
  \/ KeyUp
  \/ KeyDown
  \/ KeyOther
  \/ KeyQuit

MenuSpec == Init /\ [][MenuNext]_vars

\* what the main thread does by itself: it waits for no key and no event
MainStep == UpdateStep(SinkSnapshots) \/ Draw

\* the loop of _run with its keys and the wakeups, against a server that has
\* one sink at most
RefreshNext ==
  \/ MainStep
  \/ KeyUp
  \/ KeyDown
  \/ KeyOther
  \/ KeyQuit
  \/ Wakeup

\* the main thread goes on while it can; keys and events come or do not
RefreshSpec ==
  /\ Init
  /\ [][RefreshNext]_vars
  /\ WF_menu_vars(MainStep)

(***************************************************************************)
(* The name of an item: uid_str, PAMixerMenuItem.update_name, _get_name,   *)
(* _get_name_descriptive, _get_name_unique. A str is the sequence of its   *)
(* pieces, '' the empty sequence.                                          *)
(***************************************************************************)
\* a str of a property list, or a literal, as a sequence of pieces
Str(v) == IF v = "" THEN <<>> ELSE <<v>>

\* Python's None where a str is expected: no str has an empty piece
NoneStr == <<"">>

\* "if not name"
Falsy(name) == name = <<>> \/ name = NoneStr

\* '{}'.format(name)
Format(name) == IF name = NoneStr THEN <<"None">> ELSE name

\* uid_str() of the value _seed_gen gives:
\* urlsafe_b64encode(sha256('\0\0\0{:08x}'.format(n)).digest()[:3])
UidTable ==
  (0 :> "mAgx") @@ (1 :> "pIdr") @@ (2 :> "_q0v") @@ (3 :> "w7iY")
    @@ (29742044 :> "Qjje") @@ (29742045 :> "Qjje")
    @@ (29742046 :> "SP49") @@ (29742047 :> "bPgC")

uid_str(seed) == UidTable[seed]

\* _get_name_unique: '{} #{}'.format(name, uid_str())
Unique(name, seed) == Format(name) \o <<" #", uid_str(seed)>>

\* _strip_noise_bytes with broken_chars_replace = '_'; "BEL" stands for the
\* str of the one character U+0007, which has no unicodedata.name
StripNoise(v) == IF v = "BEL" THEN "_" ELSE v

\* props of _get_name_descriptive
Props(item) ==
  [k \in DOMAIN item.obj.proplist |-> StripNoise(item.obj.proplist[k])]

\* conf.placeholder_media_names
Placeholders == {"audio stream", "AudioStream", "Output", "ALSA Playback"}

StreamExt ==
  <<"application.process.user", "application.process.host",
    "application.process.id">>
SinkExt == <<"device.profile.name", "alsa.driver_name">>

\* "if ext": '{} {}'.format(name, ext filled in from props); a missing key is
\* logged and name is left as it is
WithExt(name, ext, props) ==
  IF Range(ext) \subseteq DOMAIN props
    THEN IF ext = StreamExt
           THEN Format(name) \o <<" (">> \o Str(props[ext[1]]) \o <<"@">>
                  \o Str(props[ext[2]]) \o <<":">> \o Str(props[ext[3]])
                  \o <<")">>
           ELSE Format(name) \o <<" (">> \o Str(props[ext[1]]) \o <<"@">>
                  \o Str(props[ext[2]]) \o <<")">>
    ELSE name

\* props.get(k)
Get(props, k) == IF k \in DOMAIN props THEN Str(props[k]) ELSE NoneStr

\* _get_name_descriptive: the name, the calls of uid_str it made and the
\* exception it ended with; seed is what _seed_gen gives next
GetNameDescriptive(item, seed) ==
  LET props == Props(item)
      ret(name, used) == [name |-> name, used |-> used, err |-> "none"]
      KeyError == [name |-> NoneStr, used |-> 0, err |-> "KeyError"]
  IN IF item.t = "stream"
       THEN IF /\ conf.use_media_name
               /\ ~Falsy(Get(props, "media.name"))
               /\ props["media.name"] \notin Placeholders
              THEN ret(Str(props["media.name"]), 0)
            ELSE IF "application.name" \in DOMAIN props
              THEN ret(WithExt(Str(props["application.name"]), StreamExt,
                               props), 0)
            ELSE IF "media.name" \in DOMAIN props
              THEN ret(WithExt(Unique(Str(props["media.name"]), seed),
                               StreamExt, props), 1)
            ELSE KeyError
     ELSE IF item.t = "sink"
       THEN IF conf.use_device_name THEN ret(Str(item.obj.name), 0)
            ELSE LET a == Get(props, "alsa.id")
                     b == Get(props, "device.description")
                     c == Get(props, "device.api")
                     name == IF ~Falsy(a) THEN a
                             ELSE IF ~Falsy(b) THEN b ELSE c
                 IN IF ~Falsy(name) THEN ret(WithExt(name, SinkExt, props), 0)
                    ELSE IF {"device.api", "device.string"}
                              \subseteq DOMAIN props
                      THEN ret(WithExt(Str(props["device.api"]) \o <<".">>
                                         \o Str(props["device.string"]),
                                       SinkExt, props), 0)
                    ELSE IF "device.description" \in DOMAIN props
                      THEN ret(WithExt(name, SinkExt, props), 1)
                    ELSE KeyError
     ELSE KeyError

\* _get_name: in fatal mode the exception goes on
GetName(item, seed) ==
  LET d == GetNameDescriptive(item, seed)
  IN IF d.err = "none" THEN d
     ELSE IF conf.fatal THEN d
     ELSE [name |-> Unique(<<item.t>>, seed + d.used), used |-> d.used + 1,
           err |-> "none"]

\* the bug: no "if not self.name"
update_name_NoNull(item, seed) == GetName(item, seed)

\* update_name
update_name(item, seed) ==
  LET g == GetName(item, seed)
  IN IF g.err = "none" /\ Falsy(g.name)
       THEN [g EXCEPT !.name = Unique(<<"null">>, seed + g.used),
                      !.used = g.used + 1]
       ELSE g

\* the item with self.name
WithName(item, name) ==
  [k \in DOMAIN item \cup {"name"} |-> IF k = "name" THEN name ELSE item[k]]

(***************************************************************************)
(* One PAMixerMenuItem: what main() configures, the construction and the   *)
(* operations the keys and the rules do on the item.                       *)
(***************************************************************************)
\* the rule group [match application.name = Music, volume-max = 0.5] alone
MusicMax ==
  << [sec |-> "stream-music",
      checks |-> << <<"match", "application.name", [equals |-> "Music"]>>,
                    <<"set", "volume-max", "0.5">> >>] >>

\* the rule groups [match Music: port, hidden = yes], [match Music:
\* volume-set = 0.3]
PortRules ==
  << [sec |-> "stream-port",
      checks |-> << <<"match", "application.name", [equals |-> "Music"]>>,
                    <<"set", "port", "hdmi">>,
                    <<"set", "hidden", "yes">> >>],
     [sec |-> "stream-quiet",
      checks |-> << <<"match", "application.name", [equals |-> "Music"]>>,
                    <<"set", "volume-set", "0.3">> >>] >>

\* conf.stream_params as update_conf_from_file leaves it
RuleSets == { <<>>, MusicMax, PortRules }

\* the configurations main() may end up with
Confs ==
  [min_volume : {0, 1}, max_volume : {50, 100}, stream_params : RuleSets,
   fatal : {FALSE}, use_media_name : {FALSE}, use_device_name : {FALSE}]

\* obj.proplist of the object an item is made of
ItemPropLists ==
  { ("application.name" :> "Music") @@ ("alsa.id" :> "card"),
    ("application.name" :> "Video") @@ ("alsa.id" :> "card") }

\* obj.volume.value_flat as the server reports it, in hundredths of hundredths
NativeVolumes == {0, 4100, 10000, 15000}

\* the objects an item is made of, unmuted: the muted setter gives the rest
ItemObjs ==
  [index : {0}, name : {"alsa_output"}, proplist : ItemPropLists,
   volume : NativeVolumes, mute : {0}]

\* what the volume setter is given, in hundredths
VolumeArgs == {-20, 0, 30, 50, 100, 130}

\* the item as the operation leaves it, and what the operation raised
Settle(item) == [k \in DOMAIN item \ {"exc"} |-> item[k]]
ExcOf(item) == IF Raised(item) THEN item.exc ELSE "none"

\* main(): the configuration file and the command line are read
Configure(confs) ==
  /\ op.name = "none"
  /\ conf' \in confs
  /\ op' = [name |-> "conf", arg |-> 0]
  /\ wake' \in Outcomes
  /\ UNCHANGED <<itm, exc, seed_gen>>
  /\ UNCHANGED <<lock_vars, menu_vars, bridge_vars>>

\* PAMixerMenuItem(menu, obj_t, obj_id, obj); uid_str can be called twice
Construct(obj_t, obj) ==
  /\ op.name # "none"
  /\ seed_gen + 1 \in DOMAIN UidTable
  /\ LET item == NewItem(obj_t, ObjId(obj_t, obj), obj, 0, 0)
         named == update_name(item, seed_gen)
     IN /\ itm' = IF named.err = "none" THEN WithName(item, named.name)
                   ELSE NoItem
        /\ exc' = named.err
        /\ seed_gen' = seed_gen + named.used
  /\ op' = [name |-> "init", arg |-> 0]
  /\ UNCHANGED <<conf, wake>>
  /\ UNCHANGED <<lock_vars, menu_vars, bridge_vars>>

\* item.volume = val
VolumeSet(val) ==
  /\ itm.t # "none"
  /\ itm' = Settle(volume_set(itm, val))
  /\ exc' = ExcOf(volume_set(itm, val))
  /\ op' = [name |-> "volume", arg |-> val]
  /\ wake' \in Outcomes
  /\ UNCHANGED <<conf, seed_gen>>
  /\ UNCHANGED <<lock_vars, menu_vars, bridge_vars>>

\* what volume_change is given, in hundredths
Deltas == {-100, -50, 50, 100}

\* the bug: a sum outside [0, 1] wraps around
VolumeChange_Wraps(delta) ==
  /\ itm.t # "none"
  /\ itm' = Settle(volume_set(itm, (volume(itm) + delta) % 100))
  /\ exc' = ExcOf(volume_set(itm, (volume(itm) + delta) % 100))
  /\ op' = [name |-> "change", arg |-> delta]
  /\ wake' \in Outcomes
  /\ UNCHANGED <<conf, seed_gen>>
  /\ UNCHANGED <<lock_vars, menu_vars, bridge_vars>>

\* item.volume_change(delta): self.volume += delta
VolumeChange(delta) ==
  /\ itm.t # "none"
  /\ itm' = Settle(volume_set(itm, volume(itm) + delta))
  /\ exc' = ExcOf(volume_set(itm, volume(itm) + delta))
  /\ op' = [name |-> "change", arg |-> delta]
  /\ wake' \in Outcomes
  /\ UNCHANGED <<conf, seed_gen>>
  /\ UNCHANGED <<lock_vars, menu_vars, bridge_vars>>

\* item.muted = val
MutedSet(val) ==
  /\ itm.t # "none"
  /\ itm' = Settle(muted_set(itm, val))
  /\ exc' = ExcOf(muted_set(itm, val))
  /\ op' = [name |-> "muted", arg |-> IF val THEN 1 ELSE 0]
  /\ wake' \in Outcomes
  /\ UNCHANGED <<conf, seed_gen>>
  /\ UNCHANGED <<lock_vars, menu_vars, bridge_vars>>

\* self.apply_stream_params(item), as update() does for a new item
ApplyStreamParams ==
  /\ op.name = "init"
  /\ itm' = Settle(apply_stream_params(itm))
  /\ exc' = ExcOf(apply_stream_params(itm))
  /\ op' = [name |-> "apply", arg |-> 0]
  /\ wake' \in Outcomes
  /\ UNCHANGED <<conf, seed_gen>>
  /\ UNCHANGED <<lock_vars, menu_vars, bridge_vars>>

ItemNext ==
  \/ Configure(Confs)
  \/ \E obj_t \in {"sink", "stream"}, obj \in ItemObjs : Construct(obj_t, obj)
  \/ \E val \in VolumeArgs : VolumeSet(val)
  \/ \E delta \in Deltas : VolumeChange(delta)
  \/ \E val \in BOOLEAN : MutedSet(val)
  \/ ApplyStreamParams

ItemSpec == Init /\ [][ItemNext]_vars

(***************************************************************************)
(* A pass of update() in which apply_stream_params raises.                 *)
(***************************************************************************)
\* the orders "for obj_id in obj_new" can take a set in
Orders(ids) ==
  { f \in [1 .. Cardinality(ids) -> ids] :
      \A i, j \in DOMAIN f : f[i] = f[j] => i = j }

\* for obj_id in obj_new: self.apply_stream_params(...), in the order ord,
\* up to the first item that raises: item_objs then, and the exception
RECURSIVE ApplyUntil(_, _)
ApplyUntil(objs, ord) ==
  IF ord = <<>> THEN [objs |-> objs, exc |-> "none"]
  ELSE LET i == CHOOSE x \in DOMAIN objs : objs[x].uid = Head(ord)
           r == apply_stream_params(objs[i])
       IN IF Raised(r)
            THEN [objs |-> [objs EXCEPT ![i] = Settle(r)], exc |-> r.exc]
            ELSE ApplyUntil([objs EXCEPT ![i] = r], Tail(ord))

\* the body of one pass up to the exception of apply_stream_params: the
\* items of the ids that are gone are deleted, the new items are in
\* item_objs, self.items is not assigned; nothing catches the exception
UpdateFail(snap) ==
  /\ upc = "u_pass"
  /\ LET k == Cardinality(SnapIds(snap) \ ItemKeys(item_objs))
     IN /\ next_oid + k <= MaxItems
        /\ \E tss \in ClockReadings(k) :
             LET st == Scan(Listed(snap),
                            [item_objs |-> item_objs, obj_new |-> {},
                             obj_gone |-> ItemKeys(item_objs)],
                            tss, next_oid)
             IN /\ \E ord \in Orders(st.obj_new) :
                     LET r == ApplyUntil(DelGone(st.item_objs, st.obj_gone),
                                         ord)
                     IN r.exc # "none" /\ item_objs' = r.objs
                /\ clock' = IF k = 0 THEN clock ELSE tss[k]
        /\ next_oid' = next_oid + k
  /\ seen' = SnapIds(snap)
  /\ upc' = "crashed"
  /\ UNCHANGED <<items, update_signal, update_lock, hl, hl_ts, cur,
                 focus_default, bursts, unserved>>
  /\ UNCHANGED <<lock_vars, item_vars, bridge_vars>>

\* the section of StreamParams and [stream-port] equals[application.name] =
\* Music, port = hdmi
FailConf ==
  [DefaultConf EXCEPT
     !.stream_params =
        StreamParams \o
          << [sec |-> "stream-port",
              checks |-> << <<"match", "application.name",
                              [equals |-> "Music"]>>,
                            <<"set", "port", "hdmi">> >>] >>]

FailInit ==
  LockInit /\ MenuInit /\ ItemStart({FailConf}, {0}) /\ BridgeInit

\* the loop of _run without its navigation keys, under FailConf
FailNext ==
  \/ UpdateStep(Snapshots)
  \/ \E snap \in Snapshots : UpdateFail(snap)
  \/ Draw
  \/ KeyOther

FailSpec == FailInit /\ [][FailNext]_vars

(***************************************************************************)
(* Rule groups against the property list of one stream item.               *)
(***************************************************************************)
\* the patterns of equals[k] = music, equals[k] =, match[k] = .*,
\* match[k] = ^$ and match[k] = mus
Patterns ==
  { [equals |-> "music"], [equals |-> ""], [re |-> ".*"], [re |-> "^$"],
    [re |-> "mus"] }

\* one group with one match clause: [stream-clause] <clause on k>,
\* hidden = yes
ClauseRule(k, v) ==
  << [sec |-> "stream-clause",
      checks |-> << <<"match", k, v>>, <<"set", "hidden", "yes">> >>] >>

ClauseRules == { ClauseRule("media.role", v) : v \in Patterns }

\* one group for the items of application k: hidden = h, volume-set = vol
Group(sec, k, h, vol) ==
  [sec |-> sec,
   checks |-> << <<"match", "application.name", [equals |-> k]>>,
                 <<"set", "hidden", h>>, <<"set", "volume-set", vol>> >>]

\* checks in which both keys come twice
Repeated ==
  << [sec |-> "stream-twice",
      checks |-> << <<"match", "application.name", [equals |-> "Music"]>>,
                    <<"set", "hidden", "yes">>,
                    <<"set", "volume-set", "0.8">>,
                    <<"set", "hidden", "no">>,
                    <<"set", "volume-set", "0.3">> >>] >>

\* groups that set the same keys
LastWriteRules ==
  { << Group("stream-a", "Music", "yes", "0.3"),
       Group("stream-b", "Music", "no", "0.8") >>,
    << Group("stream-a", "Music", "no", "0.8"),
       Group("stream-b", "Music", "yes", "0.3") >>,
    << Group("stream-a", "Music", "yes", "0.3"),
       Group("stream-b", "Video", "no", "0.8") >>,
    Repeated }

RuleConfs ==
  [min_volume : {1}, max_volume : {100},
   stream_params : ClauseRules \cup LastWriteRules,
   fatal : {FALSE}, use_media_name : {FALSE}, use_device_name : {FALSE}]

\* media.role is "music", is the empty str, or is not there
RulePropLists ==
  { ("application.name" :> "Music") @@ ("media.role" :> "music"),
    ("application.name" :> "Music") @@ ("media.role" :> ""),
    "application.name" :> "Music",
    ("application.name" :> "Video") @@ ("media.role" :> "music") }

RuleObjs ==
  [index : {0}, name : {"alsa_output"}, proplist : RulePropLists,
   volume : {4100}, mute : {0}]

RuleNext ==
  \/ Configure(RuleConfs)
  \/ \E obj \in RuleObjs : Construct("stream", obj)
  \/ ApplyStreamParams

RuleSpec == Init /\ [][RuleNext]_vars

(***************************************************************************)
(* Items constructed from hostile metadata: every branch of                *)
(* _get_name_descriptive for both kinds.                                   *)
(***************************************************************************)
NameConfs ==
  [min_volume : {1}, max_volume : {100}, stream_params : {<<>>},
   fatal : BOOLEAN, use_media_name : BOOLEAN, use_device_name : BOOLEAN]

NoProps == [k \in {} |-> ""]

StreamPropLists ==
  { NoProps,
    "application.name" :> "Music",
    "application.name" :> "",
    "application.name" :> "BEL",
    ("application.name" :> "Music") @@ ("application.process.user" :> "u")
      @@ ("application.process.host" :> "h")
      @@ ("application.process.id" :> "7"),
    ("application.name" :> "") @@ ("application.process.user" :> "")
      @@ ("application.process.host" :> "")
      @@ ("application.process.id" :> ""),
    ("application.name" :> "Music") @@ ("application.process.user" :> "u"),
    "media.name" :> "Song",
    "media.name" :> "",
    "media.name" :> "audio stream",
    ("media.name" :> "Song") @@ ("application.name" :> "Music") }

SinkPropLists ==
  { "alsa.id" :> "card",
    "alsa.id" :> "",
    "device.description" :> "",
    "device.description" :> "Speakers",
    ("device.description" :> "") @@ ("device.profile.name" :> "p")
      @@ ("alsa.driver_name" :> "d"),
    ("device.api" :> "") @@ ("device.string" :> "hw"),
    ("device.api" :> "") @@ ("device.description" :> ""),
    "device.api" :> "alsa",
    "device.string" :> "hw",
    ("alsa.id" :> "card") @@ ("device.profile.name" :> "p")
      @@ ("alsa.driver_name" :> "d"),
    ("alsa.id" :> "card") @@ ("device.profile.name" :> "") }

NameObjs ==
  [index : {0}, name : {"alsa_output", ""},
   proplist : StreamPropLists \cup SinkPropLists, volume : {100},
   mute : {0}]

\* the values _seed_gen can have reached when the first item is constructed
SeedStarts == {0, 29742044}

NameNext ==
  \/ Configure(NameConfs)
  \/ \E obj_t \in {"sink", "stream"}, obj \in NameObjs : Construct(obj_t, obj)

NameInit == LockInit /\ MenuInit /\ ItemStart({DefaultConf}, SeedStarts) /\ BridgeInit

NameSpec == NameInit /\ [][NameNext]_vars

(***************************************************************************)
(* The wakeup protocol: what is claimed of it.                             *)
(***************************************************************************)
InBody(f) == fpc[f] = "body"
InEventListen == ppc = "listening"

\* the lock thread t waits for, if it waits for one
WaitsHold(t) == IF t = Poller THEN ppc = "acq_hold" ELSE fpc[t] = "enter"
WaitsLock(t) == IF t = Poller THEN ppc = "acq_lock" ELSE fpc[t] = "acquire"
Threads == Callers \cup {Poller}
\* t waits for a lock that u holds
BlockedBy(t, u) ==
  /\ t # u
  /\ \/ WaitsHold(t) /\ pulse_hold = u
     \/ WaitsLock(t) /\ pulse_lock = u

\* C1: the poller is never inside pulse.event_listen() while a caller runs
\* the body of a with update_wakeup() scope, and no two bodies run at once.
C1_MutualExclusion ==
  /\ \A f \in Callers : InBody(f) => ~InEventListen /\ ~loop_running
  /\ \A f, g \in Callers : InBody(f) /\ InBody(g) => f = g

\* a body runs while the poller and the other caller both wait for _pulse_hold
C1_Witness ==
  /\ InBody("ui")
  /\ WaitsHold(Poller)
  /\ WaitsHold("cmd")

\* C2: no deadlock: the poller and a caller never each wait for a lock the
\* other holds, and no three threads wait for one another in a circle.
C2_NoDeadlock ==
  /\ \A t, u \in Threads : ~(BlockedBy(t, u) /\ BlockedBy(u, t))
  /\ \A t, u, w \in Threads :
       ~(BlockedBy(t, u) /\ BlockedBy(u, w) /\ BlockedBy(w, t))

\* the poller waits for _pulse_hold, held by a caller that is at its timed
\* acquire of _pulse_lock
C2_Witness ==
  /\ BlockedBy(Poller, "ui")
  /\ WaitsLock("ui")

\* C3: a scope makes at most int(5.0 / 0.03) = 166 attempts, each an
\* event_listen_stop() and then a timed acquire; when none succeeds the
\* RuntimeError is raised and the body is not run. The wait for _pulse_hold
\* that precedes the attempts is for a poller that is not blocked.
C3_BoundedAttempts ==
  /\ \A f \in Callers :
       /\ n[f] <= 166
       /\ fpc[f] = "acquire" => n[f] >= 1
       /\ fpc[f] = "stuck" => n[f] = 166 /\ ~ran[f] /\ pulse_lock # f
       /\ result[f] = "stuck" => ~ran[f]
       /\ InBody(f) => ran[f] /\ pulse_lock = f
  /\ pulse_hold = Poller => ~WaitsLock(Poller) \/ pulse_lock = Free

\* the 166th timed acquire failed: the stuck error is about to be raised
C3_Witness ==
  /\ fpc["ui"] = "stuck"
  /\ n["ui"] = 166
  /\ pulse_lock = Poller

\* C4: however a scope ends (the body returns, the body raises, the stuck
\* error), the caller holds neither lock afterwards, and no thread ever
\* releases a lock it does not hold.
C4_ReleasedOnExit ==
  /\ ~bad_release
  /\ \A f \in Callers :
       fpc[f] = "idle" => pulse_hold # f /\ pulse_lock # f
  /\ (\A f \in Callers : fpc[f] \in {"idle", "enter"})
       => pulse_hold \in {Free, Poller} /\ pulse_lock \in {Free, Poller}

\* one scope ended by its body raising, another by the stuck error
C4_Witness ==
  /\ fpc["ui"] = "idle" /\ result["ui"] = "raised"
  /\ fpc["cmd"] = "idle" /\ result["cmd"] = "stuck"

\* C5: once a scope has ended, the poller is eventually inside
\* pulse.event_listen() again, holding _pulse_lock.
C5_ListenerResumes ==
  \A f \in Callers :
    (fpc[f] = "idle" /\ result[f] # "none")
      ~> (InEventListen /\ pulse_lock = Poller)

\* a scope ran its body, and the poller is back inside event_listen()
C5_Witness ==
  /\ fpc["ui"] = "idle" /\ result["ui"] = "ok"
  /\ InEventListen
  /\ pulse_lock = Poller

(***************************************************************************)
(* The menu: what is claimed of PAMixerMenu.update and of the navigation.  *)
(***************************************************************************)
\* C6: after a pass of update() against a snapshot, the keys of item_objs
\* are the ids of that snapshot, and every id that was a key before the pass
\* maps to the same PAMixerMenuItem as before, its hidden flag and its
\* created_ts as they were.
C6_DiffCorrect ==
  /\ [](ItemKeys(item_objs) = seen)
  /\ [][\A i \in DOMAIN item_objs, j \in DOMAIN item_objs' :
         item_objs[i].uid = item_objs'[j].uid =>
           /\ item_objs'[j].oid = item_objs[i].oid
           /\ item_objs'[j].hidden = item_objs[i].hidden
           /\ item_objs'[j].created_ts = item_objs[i].created_ts]_vars

\* a hidden item of the first reading of the clock is kept, next to an item
\* of a later reading, and the item constructed between them is gone
C6_Witness ==
  /\ \E i, j \in DOMAIN item_objs :
       /\ item_objs[i].oid = 0 /\ item_objs[i].hidden
       /\ item_objs[j].oid = 2
       /\ item_objs[i].created_ts < item_objs[j].created_ts
  /\ \A i \in DOMAIN item_objs : item_objs[i].oid # 1

\* C7: whatever came and went, every sink is before every stream in
\* item_objs and in items, and the items of one kind are in the order of
\* their discovery.
C7_SinksFirst ==
  /\ \A i, j \in DOMAIN item_objs :
       i < j =>
         /\ ~(item_objs[i].t = "stream" /\ item_objs[j].t = "sink")
         /\ item_objs[i].t = item_objs[j].t =>
              item_objs[i].oid < item_objs[j].oid
  /\ \A i, j \in DOMAIN items :
       i < j =>
         /\ ~(ItemOf(items[i]).t = "stream" /\ ItemOf(items[j]).t = "sink")
         /\ ItemOf(items[i]).t = ItemOf(items[j]).t => items[i] < items[j]

\* the sink was discovered after both streams and is shown before them
C7_Witness ==
  /\ Len(items) = 3
  /\ ItemOf(items[1]).t = "sink"
  /\ items[1] > items[3]
  /\ items[2] < items[3]

\* C10: in every visible list, item_after of the last item and item_before
\* of the first item are item_default(); when the list is empty,
\* item_after, item_before and item_default return None, whatever the
\* argument, and raise nothing.
C10_NavigationBounded ==
  /\ items # <<>> =>
       /\ item_after(items[Len(items)]) = item_default
       /\ item_before(items[1]) = item_default
       /\ item_default \in Range(items)
  /\ items = <<>> =>
       /\ item_default = None
       /\ \A x \in {None} \cup { it.oid : it \in Range(item_objs) } :
            item_after(x) = None /\ item_before(x) = None

\* "down" at the last of three items has moved the highlight to the first
C10_Witness ==
  /\ upc = "loop"
  /\ Len(items) = 3
  /\ focus_default = "first"
  /\ cur = items[3]
  /\ hl = items[1]

(***************************************************************************)
(* The refresh requests: what is claimed of them.                          *)
(***************************************************************************)
\* C8: the passes of one update() call that a wakeup arrived in are each
\* followed by one more pass, and the pass no wakeup arrived in is the
\* last one, however many wakeups a pass has seen.
C8_Coalesced ==
  /\ \A i \in DOMAIN bursts : i < Len(bursts) => bursts[i] > 0
  /\ upc = "u_test" /\ bursts # <<>> =>
       (update_signal <=> bursts[Len(bursts)] > 0)
  /\ upc \in {"draw", "getch"} =>
       bursts # <<>> /\ bursts[Len(bursts)] = 0

\* update() has returned after two passes, two wakeups in the first
C8_Witness == upc = "draw" /\ bursts = <<2, 0>>

\* C9: a wakeup, wherever the loop is when it arrives, is followed by a
\* pass of update() that starts after it, with no key and no other event
\* (unless the program has ended).
C9_NoLostWakeup == unserved ~> (~unserved \/ upc \in {"quit", "crashed"})

(***************************************************************************)
(* The item: what is claimed of its volume, its rules, its name and mute.  *)
(***************************************************************************)
\* C11: whatever min_volume >= 0 and max_volume > 0 are configured, after
\* Item.volume = v for a v in [0, 1] the value read from Item.volume is v.
C11_VolumeRoundTrip ==
  /\ conf.min_volume >= 0 /\ conf.max_volume > 0
  /\ op.name = "volume" /\ exc = "none" /\ op.arg \in 0 .. 100
       => /\ volume(itm) = op.arg
          /\ itm.obj.volume = op.arg * conf.max_volume + conf.min_volume * 100

\* half volume has been written and read back under a floor of 0.01 and a
\* ceiling of 0.5
C11_Witness ==
  /\ op = [name |-> "volume", arg |-> 50]
  /\ exc = "none"
  /\ conf.min_volume = 1 /\ conf.max_volume = 50
  /\ volume(itm) = 50

\* C12: under a group that sets volume-max = b, an item that satisfies every
\* match clause of the group has the volume min(previous volume, b) after
\* apply_stream_params, and an item that fails a match clause is left as it
\* was: no volume write, hidden unchanged.
C12_VolumeMaxClamps ==
  [][op'.name = "apply" /\ exc' = "none" /\ conf.stream_params = MusicMax =>
       IF PropGet(itm.obj.proplist, "application.name") = "Music"
         THEN /\ volume(itm') = Min(volume(itm), 50)
              /\ itm'.hidden = itm.hidden
         ELSE itm' = itm]_vars

\* "Music" at 0.8 has become 0.5, under the default floor and ceiling
C12_Witness ==
  /\ op.name = "apply" /\ exc = "none"
  /\ conf.stream_params = MusicMax
  /\ conf.min_volume = 1 /\ conf.max_volume = 100
  /\ itm.obj.proplist["application.name"] = "Music"
  /\ itm.obj.volume = 5100

\* C13: a port effect on a stream item is skipped and nothing is raised: the
\* effects after it and the groups after its group are applied.
C13_PortOnStreamSkipped ==
  [][(/\ op'.name = "apply"
      /\ conf.stream_params = PortRules
      /\ itm.t = "stream"
      /\ PropGet(itm.obj.proplist, "application.name") = "Music"
      /\ wake = "ok")
       => /\ exc' = "none"
          /\ itm'.hidden
          /\ volume(itm') = 30]_vars

(***************************************************************************)
(* pa-mixer-mk2.py, PAMixerDBusBridge: the parent talks to a subprocess    *)
(* that runs the glib/dbus loop, in json lines over its stdin and stdout.  *)
(***************************************************************************)
Cids == {"c1", "c2"}
SigNames == {"NewSink", "SinkRemoved"}
DBusOutcomes == {"ok", "DBusException"}

\* self.child_calls[line['cid']] = line
Put(calls, line) ==
  [c \in DOMAIN calls \cup {line.cid} |->
     IF c = line.cid THEN line ELSE calls[c]]

\* the bug: the parent does not wait for the first line of the new instance
Popen_NoWait(stage) ==
  /\ spawned' = spawned + 1
  /\ child' = spawned + 1
  /\ cstate' = "start"
  /\ c_stdout' = <<>>
  /\ c_stdin' = <<>>
  /\ bpos' = IF stage = "init0" THEN "idle" ELSE "poll"

\* subprocess.Popen(...): a new instance with new pipes; the parent goes on
\* to read its first line
Popen(stage) ==
  /\ spawned' = spawned + 1
  /\ child' = spawned + 1
  /\ cstate' = "start"
  /\ c_stdout' = <<>>
  /\ c_stdin' = <<>>
  /\ bpos' = stage

\* self._child.stdin.write(call), then _child_readline(wait_for_cid=cid); the
\* write fails with EPIPE when the instance has exited
WriteRequest ==
  IF cstate = "dead"
    THEN /\ res' = "IOError"
         /\ bpos' = "idle"
         /\ UNCHANGED <<c_stdin, sent>>
    ELSE /\ c_stdin' = Append(c_stdin, [t |-> "call", cid |-> cur_cid])
         /\ sent' = Append(sent, [inst |-> child, cid |-> cur_cid])
         /\ bpos' = "wait"
         /\ UNCHANGED res

\* main(): dbus_bridge.child_start() with no subprocess yet
child_start ==
  /\ bpos = "idle"
  /\ child = None
  /\ Popen("init0")
  /\ UNCHANGED <<child_sigs, child_calls, cur_cid, pending, ncalls, nsigs,
                 handed, res, sent, ready_read, reaped, dbus>>
  /\ UNCHANGED <<lock_vars, menu_vars, item_vars>>

\* call(func, args): child_check_restart() begins with child_start()
call(cid) ==
  /\ bpos = "idle"
  /\ ncalls < MaxCalls
  /\ ncalls' = ncalls + 1
  /\ cur_cid' = cid
  /\ res' = "none"
  /\ IF child = None THEN Popen("init1")
     ELSE /\ bpos' = "poll"
          /\ UNCHANGED <<child, spawned, cstate, c_stdout, c_stdin>>
  /\ UNCHANGED <<child_sigs, child_calls, pending, nsigs, handed, sent,
                 ready_read, reaped, dbus>>
  /\ UNCHANGED <<lock_vars, menu_vars, item_vars>>

\* _child_readline(init_line=True) gets a line: after child_start() of
\* main() the parent is done, in child_check_restart the poll() follows,
\* after a restart the request is written
ReadReady ==
  /\ bpos \in {"init0", "init1", "init2"}
  /\ c_stdout # <<>>
  /\ c_stdout' = Tail(c_stdout)
  /\ IF Head(c_stdout).t # "ready"
       THEN /\ res' = "AssertionError"
            /\ bpos' = "idle"
            /\ UNCHANGED <<ready_read, c_stdin, sent>>
       ELSE /\ ready_read' = ready_read \cup {child}
            /\ CASE bpos = "init0" ->
                      bpos' = "idle" /\ UNCHANGED <<res, c_stdin, sent>>
                 [] bpos = "init1" ->
                      bpos' = "poll" /\ UNCHANGED <<res, c_stdin, sent>>
                 [] bpos = "init2" -> WriteRequest
  /\ UNCHANGED <<child, spawned, cstate, child_sigs, child_calls, cur_cid,
                 pending, ncalls, nsigs, handed, reaped, dbus>>
  /\ UNCHANGED <<lock_vars, menu_vars, item_vars>>

\* the bug: a dead subprocess is not noticed, the request goes to it
child_check_restart_NoPoll ==
  /\ bpos = "poll"
  /\ c_stdin' = Append(c_stdin, [t |-> "call", cid |-> cur_cid])
  /\ sent' = Append(sent, [inst |-> child, cid |-> cur_cid])
  /\ bpos' = "wait"
  /\ UNCHANGED <<child, spawned, cstate, c_stdout, res, reaped>>
  /\ UNCHANGED <<child_sigs, child_calls, cur_cid, pending, ncalls, nsigs,
                 handed, ready_read, dbus>>
  /\ UNCHANGED <<lock_vars, menu_vars, item_vars>>

\* child_check_restart at self._child.poll(): a subprocess that has exited
\* is waited for and replaced (child_start(gc_old_one=True)), otherwise
\* call() writes its request
child_check_restart ==
  /\ bpos = "poll"
  /\ IF cstate = "dead"
       THEN /\ reaped' = reaped \cup {child}
            /\ Popen("init2")
            /\ UNCHANGED <<res, sent>>
       ELSE /\ WriteRequest
            /\ UNCHANGED <<child, spawned, cstate, c_stdout, reaped>>
  /\ UNCHANGED <<child_sigs, child_calls, cur_cid, pending, ncalls, nsigs,
                 handed, ready_read, dbus>>
  /\ UNCHANGED <<lock_vars, menu_vars, item_vars>>

\* readline() returns '' at the end of the stream: the assert on the first
\* line fails, json.loads('') raises ValueError
ReadEOF ==
  /\ bpos \in {"init0", "init1", "init2", "wait", "sigread", "sigread_w"}
  /\ bpos = "wait" => cur_cid \notin DOMAIN child_calls
  /\ c_stdout = <<>>
  /\ cstate = "dead"
  /\ res' = IF bpos \in {"wait", "sigread", "sigread_w"} THEN "ValueError"
            ELSE "AssertionError"
  /\ bpos' = "idle"
  /\ UNCHANGED <<child, spawned, cstate, c_stdout, c_stdin, child_sigs,
                 child_calls, cur_cid, pending, ncalls, nsigs, handed, sent,
                 ready_read, reaped, dbus>>
  /\ UNCHANGED <<lock_vars, menu_vars, item_vars>>

\* _child_readline, one line that json.loads has decoded: a notice is
\* queued, a response is kept by its cid, anything else is dropped
StoreLine(line) ==
  /\ child_sigs' = IF line.t = "signal" THEN Append(child_sigs, line)
                   ELSE child_sigs
  /\ child_calls' = IF line.t \in {"call_result", "call_error"}
                      THEN Put(child_calls, line)
                      ELSE child_calls

\* _child_readline(wait_for_cid=cid), one turn of the loop that reads
_child_readline ==
  /\ bpos = "wait"
  /\ cur_cid \notin DOMAIN child_calls
  /\ c_stdout # <<>>
  /\ c_stdout' = Tail(c_stdout)
  /\ StoreLine(Head(c_stdout))
  /\ UNCHANGED <<child, spawned, cstate, c_stdin, bpos, cur_cid, pending,
                 ncalls, nsigs, handed, res, sent, ready_read, reaped, dbus>>
  /\ UNCHANGED <<lock_vars, menu_vars, item_vars>>

\* _child_readline finds the response of cid; call() returns its val or
\* raises PAMixerDBusError
CallReturn ==
  /\ bpos = "wait"
  /\ cur_cid \in DOMAIN child_calls
  /\ res' = IF child_calls[cur_cid].t = "call_error" THEN "PAMixerDBusError"
            ELSE "val"
  /\ child_calls' = <<>>
  /\ bpos' = "idle"
  /\ UNCHANGED <<child, spawned, cstate, c_stdout, c_stdin, child_sigs,
                 cur_cid, pending, ncalls, nsigs, handed, sent, ready_read,
                 reaped, dbus>>
  /\ UNCHANGED <<lock_vars, menu_vars, item_vars>>

\* where the handler that runs at position p returns to: the main loop, or
\* the _child_readline of the call() it has interrupted
Back(p) == IF p \in {"sigread_w", "sigpop_w"} THEN "wait" ELSE "idle"
AtPop(p) == IF Back(p) = "wait" THEN "sigpop_w" ELSE "sigpop"

\* SIGUSR1 is delivered: signal_handler starts, in the main loop or inside
\* a call() that waits for its response
signal_handler ==
  /\ bpos \in {"idle", "wait"}
  /\ pending
  /\ pending' = FALSE
  /\ bpos' = IF child_sigs = <<>>
              THEN (IF bpos = "wait" THEN "sigread_w" ELSE "sigread")
              ELSE (IF bpos = "wait" THEN "sigpop_w" ELSE "sigpop")
  /\ UNCHANGED <<child, spawned, cstate, c_stdout, c_stdin, child_sigs,
                 child_calls, cur_cid, ncalls, nsigs, handed, res, sent,
                 ready_read, reaped, dbus>>
  /\ UNCHANGED <<lock_vars, menu_vars, item_vars>>

\* _child_readline(one_signal=True), one turn of the loop
HandlerRead ==
  /\ bpos \in {"sigread", "sigread_w"}
  /\ c_stdout # <<>>
  /\ c_stdout' = Tail(c_stdout)
  /\ StoreLine(Head(c_stdout))
  /\ bpos' = IF Head(c_stdout).t = "signal" THEN AtPop(bpos) ELSE bpos
  /\ UNCHANGED <<child, spawned, cstate, c_stdin, cur_cid, pending, ncalls,
                 nsigs, handed, res, sent, ready_read, reaped, dbus>>
  /\ UNCHANGED <<lock_vars, menu_vars, item_vars>>

\* signal_handler, one turn of "while self.child_sigs": the notice is handed
\* over as self.signal_func(line['name'], line['obj']); a KeyError leaves
\* the handler, and the call() it has interrupted
HandlerPop ==
  /\ bpos \in {"sigpop", "sigpop_w"}
  /\ IF child_sigs = <<>>
       THEN /\ bpos' = Back(bpos)
            /\ UNCHANGED <<child_sigs, handed, res>>
       ELSE /\ child_sigs' = Tail(child_sigs)
            /\ IF {"name", "obj"} \subseteq DOMAIN Head(child_sigs)
                 THEN /\ handed' = Append(handed, <<Head(child_sigs).name,
                                                    Head(child_sigs).obj>>)
                      /\ UNCHANGED <<bpos, res>>
                 ELSE /\ res' = "KeyError"
                      /\ bpos' = "idle"
                      /\ UNCHANGED handed
  /\ UNCHANGED <<child, spawned, cstate, c_stdout, c_stdin, child_calls,
                 cur_cid, pending, ncalls, nsigs, sent, ready_read, reaped,
                 dbus>>
  /\ UNCHANGED <<lock_vars, menu_vars, item_vars>>

\* child_run: self.stdout.write('ready\n'), then the loop is set up and run
child_run ==
  /\ cstate = "start"
  /\ c_stdout' = Append(c_stdout, [t |-> "ready"])
  /\ cstate' = "run"
  /\ UNCHANGED <<child, spawned, c_stdin, child_sigs, child_calls, bpos,
                 cur_cid, pending, ncalls, nsigs, handed, res, sent,
                 ready_read, reaped, dbus>>
  /\ UNCHANGED <<lock_vars, menu_vars, item_vars>>

\* _rpc_call: one request is read and the D-Bus call is made. Its result is
\* written by _core_notify(t='call_result', cid=req['cid'], val=res). In the
\* except branch, cid=cid names a variable that does not exist: NameError,
\* which _glib_err_wrap turns into _loop_exc_stop(), so loop.run() returns
\* and child_run raises
_rpc_call(outcome) ==
  /\ cstate = "run"
  /\ c_stdin # <<>>
  /\ c_stdin' = Tail(c_stdin)
  /\ dbus' = outcome
  /\ IF outcome = "ok"
       THEN /\ c_stdout' = Append(c_stdout, [t |-> "call_result",
                                             cid |-> Head(c_stdin).cid,
                                             val |-> "val"])
            /\ UNCHANGED cstate
       ELSE /\ child < MaxSpawns
            /\ cstate' = "dead"
            /\ UNCHANGED c_stdout
  /\ UNCHANGED <<child, spawned, child_sigs, child_calls, bpos, cur_cid,
                 pending, ncalls, nsigs, handed, res, sent, ready_read,
                 reaped>>
  /\ UNCHANGED <<lock_vars, menu_vars, item_vars>>

\* _relay_signal(obj_path, sig_name): _core_notify(_signal=True, t='signal',
\* sig_name=sig_name, obj=obj_path) sends SIGUSR1 and writes the line
_relay_signal(obj_path, sig_name) ==
  /\ cstate = "run"
  /\ nsigs < MaxSignals
  /\ nsigs' = nsigs + 1
  /\ pending' = TRUE
  /\ c_stdout' = Append(c_stdout, [t |-> "signal", sig_name |-> sig_name,
                                   obj |-> obj_path])
  /\ UNCHANGED <<child, spawned, cstate, c_stdin, child_sigs, child_calls,
                 bpos, cur_cid, ncalls, handed, res, sent, ready_read,
                 reaped, dbus>>
  /\ UNCHANGED <<lock_vars, menu_vars, item_vars>>

\* the subprocess exits for a reason of its own: the bus is gone, it is
\* killed
ChildDies ==
  /\ cstate \in {"start", "run"}
  /\ child < MaxSpawns
  /\ cstate' = "dead"
  /\ UNCHANGED <<child, spawned, c_stdout, c_stdin, child_sigs, child_calls,
                 bpos, cur_cid, pending, ncalls, nsigs, handed, res, sent,
                 ready_read, reaped, dbus>>
  /\ UNCHANGED <<lock_vars, menu_vars, item_vars>>

BridgeNext ==
  \/ child_start
  \/ \E cid \in Cids : call(cid)
  \/ ReadReady
  \/ child_check_restart
  \/ ReadEOF
  \/ _child_readline
  \/ CallReturn
  \/ signal_handler
  \/ HandlerRead
  \/ HandlerPop
  \/ child_run
  \/ \E outcome \in DBusOutcomes : _rpc_call(outcome)
  \/ \E sig_name \in SigNames : _relay_signal("/o", sig_name)
  \/ ChildDies

BridgeSpec == Init /\ [][BridgeNext]_vars

\* C14: in non-fatal mode constructing an item never raises and leaves a
\* non-empty name, whatever the kind and the property list
C14_NameNeverEmpty ==
  op.name = "init" /\ ~conf.fatal
    => /\ exc = "none"
       /\ itm.t # "none"
       /\ ~Falsy(itm.name)

\* a sink whose only property is an empty device.description
C14_Witness ==
  /\ op.name = "init" /\ ~conf.fatal /\ ~conf.use_device_name
  /\ itm.t = "sink"
  /\ itm.obj.proplist = ("device.description" :> "")
  /\ itm.name = <<"null", " #", "pIdr">>

\* C15: two consecutive constructions of items of one kind without any
\* metadata give two different names '<kind> #<suffix>' that differ in the
\* suffix only, and the counter behind the suffix has grown
C15_FallbackNamesDiffer ==
  [][(/\ op.name = "init" /\ op'.name = "init"
      /\ ~conf.fatal /\ ~conf.use_device_name
      /\ itm.t # "none" /\ itm'.t = itm.t
      /\ DOMAIN itm.obj.proplist = {} /\ DOMAIN itm'.obj.proplist = {})
       => /\ exc' = "none"
          /\ Len(itm.name) = 3 /\ Len(itm'.name) = 3
          /\ SubSeq(itm.name, 1, 2) = <<itm.t, " #">>
          /\ SubSeq(itm'.name, 1, 2) = <<itm.t, " #">>
          /\ itm'.name[3] # itm.name[3]
          /\ seed_gen' > seed_gen]_vars

\* C16: when setting Item.muted fails, Item.muted reads as it did before
C16_MutedFailsAtomically ==
  [][(op'.name = "muted" /\ exc' # "none" /\ itm.t # "none")
       => muted(itm') = muted(itm)]_vars

\* C17: for every request the subprocess reads it writes one response with
\* the cid of the request, a call_result when the D-Bus call succeeded and a
\* call_error when it raised, and it goes on serving
C17_OneResponsePerRequest ==
  [][(Len(c_stdin') < Len(c_stdin) /\ child' = child)
       => /\ cstate' = "run"
          /\ Len(c_stdout') = Len(c_stdout) + 1
          /\ c_stdout'[Len(c_stdout')].cid = Head(c_stdin).cid
          /\ c_stdout'[Len(c_stdout')].t
               = IF dbus' = "ok" THEN "call_result" ELSE "call_error"]_vars

\* C18: every notice the subprocess writes has the fields t, name and obj,
\* and signal_handler hands every notice over without an error
C18_NoticeFormat ==
  /\ \A k \in DOMAIN c_stdout :
       c_stdout[k].t = "signal" => DOMAIN c_stdout[k] = {"t", "name", "obj"}
  /\ res # "KeyError"

\* C19: every request was written to an instance whose 'ready' line the
\* parent had read
C19_ReadyBeforeRequest ==
  \A k \in DOMAIN sent : sent[k].inst \in ready_read

\* a request to the first instance and one to the instance that replaced it
C19_Witness ==
  /\ Len(sent) = 2
  /\ sent[1].inst = 1
  /\ sent[2].inst = 2
  /\ reaped = {1}

\* C20: when call() finds that the subprocess has exited, it waits for it
\* and starts a new instance before any request is written, and the request
\* goes to the new instance once its 'ready' line is read
C20_CrashedChildRestarted ==
  /\ [][(bpos = "poll" /\ cstate = "dead" /\ bpos' # "poll")
          => /\ child \in reaped'
             /\ child' \notin reaped' \cup {child}
             /\ cstate' = "start"
             /\ sent' = sent]_vars
  /\ [][(bpos = "init2" /\ bpos' = "wait")
          => /\ child \notin reaped
             /\ child \in ready_read'
             /\ sent' = Append(sent, [inst |-> child, cid |-> cur_cid])]_vars

\* the request of the call() that found instance 1 dead is served by
\* instance 2
C20_Witness ==
  /\ ncalls = 2 /\ res = "val" /\ bpos = "idle"
  /\ child = 2 /\ reaped = {1}
  /\ sent = <<[inst |-> 1, cid |-> "c1"], [inst |-> 2, cid |-> "c2"]>>

\* C21: after a pass, every item wraps the object the server listed under
\* its id in that pass, also when the id was known from an earlier pass
C21_IdentityRevalidated ==
  [][\A snap \in Snapshots :
       UpdatePass(snap)
         => \A e \in Range(Listed(snap)) : \A i \in DOMAIN item_objs' :
              item_objs'[i].uid = ObjId(e[1], e[2])
                => item_objs'[i].obj = e[2]]_vars

\* C22: a match clause on property k with pattern p is satisfied exactly
\* when the item has k and the value of k matches p; the group of the clause
\* hides the item
C22_MatchNeedsProperty ==
  [][(op'.name = "apply" /\ exc' = "none"
      /\ conf.stream_params \in ClauseRules)
       => LET c == conf.stream_params[1].checks[1]
              pl == itm.obj.proplist
          IN itm'.hidden = (c[2] \in DOMAIN pl /\ Search(c[3], pl[c[2]]))]_vars

\* the set clauses of the groups that match, in configuration order
RECURSIVE Writes(_, _)
Writes(item, secs) ==
  IF secs = <<>> THEN <<>>
  ELSE (IF SectionMatches(Head(secs).checks, item)
          THEN SelectSeq(Head(secs).checks, LAMBDA c : c[1] = "set")
          ELSE <<>>) \o Writes(item, Tail(secs))

\* the value of the last write of key k, in a sequence of its own
LastWrite(ws, k) ==
  LET at == { i \in DOMAIN ws : ws[i][2] = k }
  IN IF at = {} THEN <<>>
     ELSE <<ws[CHOOSE i \in at : \A j \in at : j <= i][3]>>

\* C26: when several set clauses of matching groups, or of one group, have
\* the key hidden or volume-set, the value in force afterwards is the one
\* that is last in configuration order
C26_LastWriteWins ==
  [][(op'.name = "apply" /\ exc' = "none"
      /\ conf.stream_params \in LastWriteRules)
       => LET ws == Writes(itm, conf.stream_params)
              h == LastWrite(ws, "hidden")
              v == LastWrite(ws, "volume-set")
          IN /\ itm'.hidden = IF h = <<>> THEN itm.hidden ELSE ParseBool(h[1])
             /\ volume(itm') = IF v = <<>> THEN volume(itm)
                               ELSE FloatTable[v[1]]]_vars

\* one group with hidden = yes, volume-set = 0.8, hidden = no,
\* volume-set = 0.3 has been applied to "Music"
C26_Witness ==
  /\ op.name = "apply" /\ exc = "none"
  /\ conf.stream_params = Repeated
  /\ itm.obj.proplist["application.name"] = "Music"
  /\ ~itm.hidden
  /\ volume(itm) = 30

\* C23: after a completed update(), items is the items of item_objs that
\* are not hidden, in the order of item_objs; a hidden item is in item_objs
\* while the server lists its id; item_default, item_newer, item_after and
\* item_before return no hidden item, whatever they are given
C23_HiddenNotNavigable ==
  upc \in {"draw", "getch", "loop", "quit"} =>
    LET shown == SelectSeq(item_objs, LAMBDA i : ~i.hidden)
        oids == { i.oid : i \in Range(item_objs) }
        nav == {item_default}
                 \cup { item_newer(6 * t - 1) : t \in 0 .. MaxClock + 1 }
                 \cup { item_after(x) : x \in oids \cup {None} }
                 \cup { item_before(x) : x \in oids \cup {None} }
    IN /\ items = [k \in DOMAIN shown |-> shown[k].oid]
       /\ ItemKeys(item_objs) = seen
       /\ \A r \in nav : r = None \/ ~ItemOf(r).hidden

\* "Ghost" is hidden between two visible items and the highlight has moved
\* down from the first one
C23_Witness ==
  /\ upc = "loop"
  /\ Len(item_objs) = 3
  /\ item_objs[2].hidden
  /\ Len(items) = 2
  /\ cur = items[1]
  /\ hl = items[2]

\* C24: volume_change(delta) leaves the volume min(1, max(0, v + delta)) of
\* the volume v read before it and raises nothing, also when v + delta is
\* below 0 or above 1
C24_VolumeChangeSaturates ==
  [][(op'.name = "change" /\ wake = "ok")
       => /\ exc' = "none"
          /\ volume(itm') = Min(100, Max(0, volume(itm) + op'.arg))]_vars

\* 0.8 plus 0.5 has become 1.0 under a floor of 0.01 and a ceiling of 0.5
C24_Witness ==
  /\ op = [name |-> "change", arg |-> 50]
  /\ exc = "none"
  /\ conf.min_volume = 1 /\ conf.max_volume = 50
  /\ itm.obj.volume = 5100
  /\ volume(itm) = 100

\* C25: the volume read is in [0, 1], it is 0 for a native value at or below
\* min_volume and 1 for a native value at or above max_volume
C25_FloorAndCeiling ==
  itm.t # "none" =>
    /\ volume(itm) \in 0 .. 100
    /\ itm.obj.volume <= conf.min_volume * 100 => volume(itm) = 0
    /\ itm.obj.volume >= conf.max_volume * 100 => volume(itm) = 100

\* C27: every item of item_objs has had apply_stream_params run on it in
\* the pass that constructed it, and an item that stays is not changed by
\* any later pass
C27_MatcherOncePerItem ==
  /\ [](\A i \in DOMAIN item_objs :
          item_objs[i].hidden
            = (PropGet(item_objs[i].obj.proplist, "application.name")
                 = "Ghost"))
  /\ [][\A i \in DOMAIN item_objs, j \in DOMAIN item_objs' :
          item_objs[i].oid = item_objs'[j].oid
            => item_objs'[j] = item_objs[i]]_vars

\* C29: every item of self.items is a value of item_objs, also after an
\* update() that raised
C29_ItemsAreTracked ==
  \A k \in DOMAIN items : \E i \in DOMAIN item_objs : item_objs[i].oid = items[k]

\* C28: a notice the parent reads, inside call() or inside the handler, is
\* appended to child_sigs; a notice leaves child_sigs only from its head and
\* only by being passed to signal_func, which is also the only way anything
\* is passed, so none is passed twice, none is lost, and the order is kept
C28_NoticesNeitherLostNorDoubled ==
  [][/\ (c_stdout # <<>> /\ c_stdout' = Tail(c_stdout) /\ child' = child
         /\ Head(c_stdout).t = "signal")
          => child_sigs' = Append(child_sigs, Head(c_stdout))
     /\ child_sigs' # child_sigs
          => \/ /\ c_stdout # <<>>
                /\ child_sigs' = Append(child_sigs, Head(c_stdout))
             \/ /\ child_sigs # <<>>
                /\ child_sigs' = Tail(child_sigs)
                /\ Len(handed') = Len(handed) + 1
                /\ handed'[Len(handed')][2] = Head(child_sigs).obj
     /\ handed' # handed
          => /\ child_sigs # <<>>
             /\ child_sigs' = Tail(child_sigs)
             /\ SubSeq(handed', 1, Len(handed)) = handed]_vars

====
